---- MODULE Spec2Model ----
(***************************************************************************)
(* Model of src/src/exporter.py: the ROS 2 telemetry exporter node          *)
(* (ExporterNode), its five sensor callbacks, its 5-second timer callback   *)
(* publish_telemetry_callback, and the host probes get_cpu_model,           *)
(* get_disk_type, get_gpu_info, get_npu_info and get_compute_info.          *)
(*                                                                         *)
(* Conventions.                                                            *)
(*  - Python str values that the code inspects character by character      *)
(*    (device paths, /proc/cpuinfo lines, load files) are sequences of      *)
(*    one-character strings; fixed labels the code only returns are TLA+    *)
(*    strings.                                                             *)
(*  - Python floats are fixed-point integers in units of 10^-5 (Unit per    *)
(*    1.0); the float NaN is the value NaN.                                 *)
(*  - A Python call that may raise returns [exc |-> TRUE] or                *)
(*    [exc |-> FALSE, val |-> v]; try/except is modelled where the code     *)
(*    has it and nowhere else.                                              *)
(***************************************************************************)
EXTENDS Integers, Sequences, FiniteSets, TLC

VARIABLES
    last_battery_msg,   \* ExporterNode.last_battery_msg
    last_pose_msg,      \* ExporterNode.last_pose_msg
    last_imu_msg,       \* ExporterNode.last_imu_msg
    last_scan_msg,      \* ExporterNode.last_scan_msg
    last_odom_msg,      \* ExporterNode.last_odom_msg
    alive,              \* rclpy.spin(node) is still running
    ticks,              \* timer callbacks started so far
    attempts,           \* times the publish try-block (line 430) was entered
    errors,             \* "Publish Error" records written to the log
    delivered,          \* ts of the snapshots the broker accepted, in order
    last,               \* what the most recent handler did (history)
    probe_env,          \* host state handed to a probe function
    probe_ret           \* what the probe function returned

cache == <<last_battery_msg, last_pose_msg, last_imu_msg, last_scan_msg, last_odom_msg>>
node_vars == <<alive, ticks, attempts, errors, delivered, last>>
probe_vars == <<probe_env, probe_ret>>
vars == <<last_battery_msg, last_pose_msg, last_imu_msg, last_scan_msg, last_odom_msg,
          alive, ticks, attempts, errors, delivered, last, probe_env, probe_ret>>

(***************************************************************************)
(* Exceptions                                                              *)
(***************************************************************************)
Ok(v) == [exc |-> FALSE, val |-> v]
Raise == [exc |-> TRUE]

(***************************************************************************)
(* Python str operations on character sequences                            *)
(***************************************************************************)
\* sub in s
Contains(s, sub) ==
    \E i \in 1..(Len(s) - Len(sub) + 1) : SubSeq(s, i, i + Len(sub) - 1) = sub

\* s.startswith(p)
StartsWith(s, p) == Len(s) >= Len(p) /\ SubSeq(s, 1, Len(p)) = p

UpperChars == <<"A","B","C","D","E","F","G","H","I","J","K","L","M",
                "N","O","P","Q","R","S","T","U","V","W","X","Y","Z">>
LowerChars == <<"a","b","c","d","e","f","g","h","i","j","k","l","m",
                "n","o","p","q","r","s","t","u","v","w","x","y","z">>

LowerChar(c) ==
    IF \E i \in 1..Len(UpperChars) : UpperChars[i] = c
    THEN LowerChars[CHOOSE i \in 1..Len(UpperChars) : UpperChars[i] = c]
    ELSE c

\* s.lower()
Lower(s) == [i \in 1..Len(s) |-> LowerChar(s[i])]

Whitespace == {" ", "\t", "\n", "\r"}
Digits == {"0","1","2","3","4","5","6","7","8","9"}

\* s.rstrip(chars)
RECURSIVE RStrip(_, _)
RStrip(s, chars) ==
    IF Len(s) > 0 /\ s[Len(s)] \in chars THEN RStrip(SubSeq(s, 1, Len(s) - 1), chars) ELSE s

\* s.lstrip(chars)
RECURSIVE LStrip(_, _)
LStrip(s, chars) ==
    IF Len(s) > 0 /\ s[1] \in chars THEN LStrip(Tail(s), chars) ELSE s

\* s.strip()
Strip(s) == LStrip(RStrip(s, Whitespace), Whitespace)

\* index of the first occurrence of character c in s, Len(s) + 1 when there is none
FirstIndex(s, c) ==
    IF \E i \in 1..Len(s) : s[i] = c
    THEN CHOOSE i \in 1..Len(s) : s[i] = c /\ \A j \in 1..(i - 1) : s[j] # c
    ELSE Len(s) + 1

\* s.split(sep)[1]: the text between the first and the second separator;
\* IndexError when s holds no separator
SplitField1(s, sep) ==
    LET i == FirstIndex(s, sep)
        rest == SubSeq(s, i + 1, Len(s))
    IN  IF i > Len(s) THEN Raise
        ELSE Ok(SubSeq(rest, 1, FirstIndex(rest, sep) - 1))

\* s.replace(c, "")
Remove(s, c) == SelectSeq(s, LAMBDA x : x # c)

\* os.path.basename(p)
RECURSIVE Basename(_)
Basename(p) ==
    IF \E i \in 1..Len(p) : p[i] = "/"
    THEN Basename(SubSeq(p, FirstIndex(p, "/") + 1, Len(p)))
    ELSE p

DigitValue(c) == CHOOSE n \in 0..9 : <<"0","1","2","3","4","5","6","7","8","9">>[n + 1] = c

RECURSIVE DecimalValue(_)
DecimalValue(s) ==
    IF Len(s) = 0 THEN 0
    ELSE 10 * DecimalValue(SubSeq(s, 1, Len(s) - 1)) + DigitValue(s[Len(s)])

\* float(s) for the texts a load file holds here: surrounding whitespace is
\* ignored, a run of decimal digits is its value, anything else (the empty
\* string, letters, punctuation) is a ValueError
ParseFloat(s) ==
    LET t == Strip(s)
    IN  IF Len(t) > 0 /\ \A i \in 1..Len(t) : t[i] \in Digits
        THEN Ok(DecimalValue(t))
        ELSE Raise

(***************************************************************************)
(* Files of the host: a file is Missing, or exists and is readable with a   *)
(* text, or exists and open()/read() raises                                *)
(***************************************************************************)
Missing == [exists |-> FALSE]
Unreadable == [exists |-> TRUE, readable |-> FALSE]
File(text) == [exists |-> TRUE, readable |-> TRUE, text |-> text]

\* with open(path) as f: f.read()
ReadFile(f) == IF f.exists /\ f.readable THEN Ok(f.text) ELSE Raise

(***************************************************************************)
(* get_cpu_model                                                           *)
(***************************************************************************)
S_model_name == <<"m","o","d","e","l"," ","n","a","m","e">>
S_hardware == <<"h","a","r","d","w","a","r","e">>
S_Unknown == <<"U","n","k","n","o","w","n">>

\* platform.processor() or "Unknown"
processor_or_unknown(processor) == IF processor = <<>> THEN S_Unknown ELSE processor

\* the for loop of lines 60-64 from line i on, then line 65
RECURSIVE cpuinfo_scan(_, _, _)
cpuinfo_scan(lines, i, processor) ==
    IF i > Len(lines) THEN Ok(processor_or_unknown(processor))
    ELSE IF Contains(Lower(lines[i]), S_model_name)
         THEN LET f == SplitField1(lines[i], ":")
              IN  IF f.exc THEN Raise ELSE Ok(Strip(f.val))
    ELSE IF Contains(Lower(lines[i]), S_hardware)
         THEN LET f == SplitField1(lines[i], ":")
              IN  IF f.exc THEN Raise ELSE Ok(Strip(f.val))
    ELSE cpuinfo_scan(lines, i + 1, processor)

\* env.cpuinfo: the file /proc/cpuinfo as a File whose text is a sequence of
\* lines; env.processor: what platform.processor() returns
get_cpu_model(env) ==
    LET body == IF ~(env.cpuinfo.exists /\ env.cpuinfo.readable) THEN Raise
                ELSE cpuinfo_scan(env.cpuinfo.text, 1, env.processor)
    IN  IF body.exc THEN Ok(processor_or_unknown(env.processor)) ELSE body

(***************************************************************************)
(* get_disk_type                                                           *)
(***************************************************************************)
S_mmcblk == <<"m","m","c","b","l","k">>
S_nvme == <<"n","v","m","e">>
S_dev_sd == <<"/","d","e","v","/","s","d">>
S_root == <<"/">>
S_sys_block == <<"/","s","y","s","/","b","l","o","c","k","/">>
S_queue_rotational == <<"/","q","u","e","u","e","/","r","o","t","a","t","i","o","n","a","l">>

\* lines 85-89: the device of the first partition mounted on "/", or None
root_partition(parts) ==
    IF \E i \in 1..Len(parts) : parts[i].mountpoint = S_root
    THEN [none |-> FALSE,
          device |-> parts[CHOOSE i \in 1..Len(parts) :
                               /\ parts[i].mountpoint = S_root
                               /\ \A j \in 1..(i - 1) : parts[j].mountpoint # S_root].device]
    ELSE [none |-> TRUE]

\* line 100-101
rotational_path(root_part) ==
    S_sys_block \o RStrip(Basename(root_part), Digits) \o S_queue_rotational

\* os.path.exists(path) and open(path) over env.files, a function from the
\* paths that exist to their File
FileAt(files, path) == IF path \in DOMAIN files THEN files[path] ELSE Missing

\* classify_device with the NVMe test ahead of the SD/eMMC test
classify_device_nvme_first(root_part, files) ==
    IF Contains(root_part, S_nvme) THEN Ok("NVMe SSD")
    ELSE IF Contains(root_part, S_mmcblk) THEN Ok("SD/eMMC")
    ELSE IF StartsWith(root_part, S_dev_sd)
         THEN LET f == FileAt(files, rotational_path(root_part))
              IN  IF f.exists
                  THEN LET r == ReadFile(f)
                       IN  IF r.exc THEN Raise
                           ELSE Ok(IF Strip(r.val) = <<"1">> THEN "HDD" ELSE "SSD")
                  ELSE Ok("Unknown")
    ELSE Ok("Unknown")

\* lines 93-104, given a root partition that is neither None nor ""
classify_device(root_part, files) ==
    IF Contains(root_part, S_mmcblk) THEN Ok("SD/eMMC")
    ELSE IF Contains(root_part, S_nvme) THEN Ok("NVMe SSD")
    ELSE IF StartsWith(root_part, S_dev_sd)
         THEN LET f == FileAt(files, rotational_path(root_part))
              IN  IF f.exists
                  THEN LET r == ReadFile(f)
                       IN  IF r.exc THEN Raise
                           ELSE Ok(IF Strip(r.val) = <<"1">> THEN "HDD" ELSE "SSD")
                  ELSE Ok("Unknown")
    ELSE Ok("Unknown")

\* lines 85-105, the body of the try block
disk_type_body(env) ==
    IF env.partitions.exc THEN Raise
    ELSE LET root == root_partition(env.partitions.val)
         IN  IF root.none \/ root.device = <<>> THEN Ok("Unknown")
             ELSE classify_device(root.device, env.files)

\* env.partitions: the outcome of psutil.disk_partitions(), Raise or Ok of a
\* sequence of [device, mountpoint]; env.files: the files that exist
get_disk_type(env) ==
    LET body == disk_type_body(env)
    IN  IF body.exc THEN Ok("Unknown") ELSE body

(***************************************************************************)
(* Python floats: fixed point, Unit per 1.0                                *)
(***************************************************************************)
Unit == 10 ^ 5

\* round(x, ndigits) for ndigits in 0..5: to the nearest multiple of
\* 10^(5 - ndigits), a tie going to the even multiple
Round(x, ndigits) ==
    LET q == 10 ^ (5 - ndigits)
        r == x % q
        lo == x - r
    IN  IF 2 * r < q THEN lo
        ELSE IF 2 * r > q THEN lo + q
        ELSE IF (lo \div q) % 2 = 0 THEN lo ELSE lo + q

(***************************************************************************)
(* get_gpu_info                                                            *)
(***************************************************************************)
GpuUnavailable ==
    [available |-> FALSE, name |-> "None", model |-> "None",
     memory_total_bytes |-> 0, memory_used_bytes |-> 0,
     memory_usage_percent |-> 0, utilization_percent |-> 0]

\* lines 126-144, the body of the try block; nvml.query is the outcome of the
\* pynvml calls: Raise, or Ok of [count, name, total, used, util]
gpu_info_body(nvml) ==
    IF nvml.query.exc THEN Raise
    ELSE LET q == nvml.query.val
         IN  IF q.count > 0
             THEN Ok([available |-> TRUE, name |-> q.name, model |-> q.name,
                      memory_total_bytes |-> q.total, memory_used_bytes |-> q.used,
                      memory_usage_percent |->
                          IF q.total > 0
                          THEN Round((q.used * 100 * Unit) \div q.total, 2) ELSE 0,
                      utilization_percent |-> q.util * Unit])
             ELSE Ok(GpuUnavailable)

\* nvml.available: NVML_AVAILABLE, set once at import (lines 18-23)
get_gpu_info(nvml) ==
    IF ~nvml.available THEN GpuUnavailable
    ELSE LET body == gpu_info_body(nvml)
         IN  IF body.exc THEN GpuUnavailable ELSE body.val

(***************************************************************************)
(* get_npu_info                                                            *)
(***************************************************************************)
NpuUnavailable ==
    [available |-> FALSE, name |-> "None", model |-> "None", utilization_percent |-> 0]

\* lines 168-180 from path i of rknpu_paths on: the first path that exists is
\* read and parsed; Ok([found |-> FALSE]) when no path exists
RECURSIVE rknpu_load_scan(_, _)
rknpu_load_scan(paths, i) ==
    IF i > Len(paths) THEN Ok([found |-> FALSE])
    ELSE IF paths[i].exists
         THEN LET r == ReadFile(paths[i])
              IN  IF r.exc THEN Raise
                  ELSE LET v == ParseFloat(Remove(Strip(r.val), "%"))
                       IN  IF v.exc THEN Raise
                           ELSE Ok([found |-> TRUE,
                                    info |-> [available |-> TRUE, name |-> "Rockchip NPU",
                                              model |-> "RK3588/RK3568 NPU",
                                              utilization_percent |-> v.val * Unit]])
    ELSE rknpu_load_scan(paths, i + 1)

\* lines 161-192: Ok([found |-> FALSE]) when the Rockchip block returns nothing
rockchip_npu(env) ==
    IF env.devfreq_dir \/ env.dev_rknpu
    THEN LET body == rknpu_load_scan(<<env.debug_load, env.devfreq_load>>, 1)
         IN  IF ~body.exc /\ body.val.found THEN body.val
             ELSE IF env.dev_rknpu
                  THEN [found |-> TRUE,
                        info |-> [available |-> TRUE, name |-> "Rockchip NPU",
                                  model |-> "RK35xx NPU", utilization_percent |-> 0]]
                  ELSE [found |-> FALSE]
    ELSE [found |-> FALSE]

CoralIds == {"1a6e:089a", "18d1:9302"}
MovidiusIds == {"03e7:2485"}

\* lines 195-206: run is the outcome of the first subprocess.run(["lsusb"]):
\* Raise, or Ok of the set of vendor:product ids its stdout lists
coral_npu(run) ==
    IF ~run.exc /\ run.val \cap CoralIds # {}
    THEN [found |-> TRUE,
          info |-> [available |-> TRUE, name |-> "Google Coral Edge TPU",
                    model |-> "Edge TPU", utilization_percent |-> 0]]
    ELSE [found |-> FALSE]

\* lines 209-220, on the second subprocess.run(["lsusb"])
movidius_npu(run) ==
    IF ~run.exc /\ run.val \cap MovidiusIds # {}
    THEN [found |-> TRUE,
          info |-> [available |-> TRUE, name |-> "Intel Movidius NCS2",
                    model |-> "Myriad X VPU", utilization_percent |-> 0]]
    ELSE [found |-> FALSE]

\* env: devfreq_dir (/sys/class/devfreq exists), dev_rknpu (/dev/rknpu exists),
\* debug_load and devfreq_load (the two load files), lsusb (the outcomes of the
\* two lsusb runs)
get_npu_info(env) ==
    LET rk == rockchip_npu(env)
        coral == coral_npu(env.lsusb[1])
        movidius == movidius_npu(env.lsusb[2])
    IN  IF rk.found THEN rk.info
        ELSE IF coral.found THEN coral.info
        ELSE IF movidius.found THEN movidius.info
        ELSE NpuUnavailable

(***************************************************************************)
(* get_cpu_frequency and get_compute_info                                  *)
(***************************************************************************)
\* host.cpu_freq: the outcome of psutil.cpu_freq(): Raise, Ok(None) or
\* Ok([none |-> FALSE, current |-> MHz])
get_cpu_frequency(host) ==
    IF host.cpu_freq.exc THEN 0
    ELSE IF host.cpu_freq.val.none THEN 0
    ELSE host.cpu_freq.val.current

\* lines 228-267. host holds the outcome of every query the function makes;
\* the psutil and platform calls of lines 229, 231, 233, 237 and 246 stand
\* outside any try block, so their exception is the function's
get_compute_info(host) ==
    IF \/ host.cpu_count.exc \/ host.machine.exc \/ host.cpu_percent.exc
       \/ host.virtual_memory.exc \/ host.disk_usage.exc
    THEN Raise
    ELSE Ok([cpu |-> [cores |-> host.cpu_count.val,
                      model |-> get_cpu_model(host).val,
                      architecture |-> host.machine.val,
                      frequency_mhz |-> Round(get_cpu_frequency(host), 2),
                      usage_percent |-> Round(host.cpu_percent.val, 2)],
             memory |-> [total_bytes |-> host.virtual_memory.val.total,
                         available_bytes |-> host.virtual_memory.val.available,
                         used_bytes |-> host.virtual_memory.val.used,
                         usage_percent |-> Round(host.virtual_memory.val.percent, 2)],
             disk |-> [type |-> get_disk_type(host).val,
                       total_bytes |-> host.disk_usage.val.total,
                       available_bytes |-> host.disk_usage.val.free,
                       used_bytes |-> host.disk_usage.val.used,
                       usage_percent |-> Round(host.disk_usage.val.percent, 2)],
             gpu |-> get_gpu_info(host.nvml),
             npu |-> get_npu_info(host.npu)])

(***************************************************************************)
(* publish_telemetry_callback, step by step                                *)
(***************************************************************************)
None == [none |-> TRUE]

\* a float that may be NaN
F(v) == [nan |-> FALSE, v |-> v]
NaN == [nan |-> TRUE, v |-> 0]
\* a <= b, false when a is NaN
FLe(a, b) == ~a.nan /\ a.v <= b
\* a * num / den
FScale(a, num, den) == IF a.nan THEN NaN ELSE F((a.v * num) \div den)

\* self.spec_wh = float(os.getenv("BATTERY_SPEC_WH", "19.98")), in hundredths
SpecWhCenti == 1998

\* battery_locals with the threshold test raw_pct < 1.0
battery_locals_strict_threshold(msg) ==
    IF msg.none
    THEN [ratio |-> F(0), pct_disp |-> F(0), wh |-> F(0), volt |-> 0]
    ELSE LET raw_pct == msg.percentage
             below == ~raw_pct.nan /\ raw_pct.v < Unit
             ratio == IF below THEN raw_pct ELSE FScale(raw_pct, 1, 100)
             pct_disp == IF below THEN FScale(raw_pct, 100, 1) ELSE raw_pct
         IN  [ratio |-> ratio, pct_disp |-> pct_disp,
              wh |-> FScale(ratio, SpecWhCenti, 100), volt |-> msg.voltage]

\* lines 335-347
battery_locals(msg) ==
    IF msg.none
    THEN [ratio |-> F(0), pct_disp |-> F(0), wh |-> F(0), volt |-> 0]
    ELSE LET raw_pct == msg.percentage
             ratio == IF FLe(raw_pct, Unit) THEN raw_pct ELSE FScale(raw_pct, 1, 100)
             pct_disp == IF FLe(raw_pct, Unit) THEN FScale(raw_pct, 100, 1) ELSE raw_pct
         IN  [ratio |-> ratio, pct_disp |-> pct_disp,
              wh |-> FScale(ratio, SpecWhCenti, 100), volt |-> msg.voltage]

\* lines 350-354
pose_locals(msg) ==
    IF msg.none THEN [x_pos |-> 0, y_pos |-> 0] ELSE [x_pos |-> msg.x, y_pos |-> msg.y]

\* motion_locals with acceleration_x read from the odometry reading
motion_locals_crossed(odom, imu) ==
    [linear_v |-> IF odom.none THEN 0 ELSE odom.linear_x,
     angular_v |-> IF odom.none THEN 0 ELSE odom.angular_z,
     accel_x |-> IF odom.none THEN 0 ELSE odom.linear_x]

\* lines 357-364
motion_locals(odom, imu) ==
    [linear_v |-> IF odom.none THEN 0 ELSE odom.linear_x,
     angular_v |-> IF odom.none THEN 0 ELSE odom.angular_z,
     accel_x |-> IF imu.none THEN 0 ELSE imu.linear_acceleration_x]

RECURSIVE SeqSum(_)
SeqSum(s) == IF Len(s) = 0 THEN 0 ELSE s[1] + SeqSum(Tail(s))

\* np.min
SeqMin(s) == CHOOSE m \in {s[i] : i \in 1..Len(s)} : \A i \in 1..Len(s) : m <= s[i]

\* np.mean
SeqMean(s) == SeqSum(s) \div Len(s)

\* valid_ranges with the upper test r <= 3.5
valid_ranges_inclusive(ranges) ==
    SelectSeq(ranges, LAMBDA r : r > Unit \div 100 /\ r <= (35 * Unit) \div 10)

\* line 371-372: the ranges r with 0.01 < r < 3.5
valid_ranges(ranges) == SelectSeq(ranges, LAMBDA r : r > Unit \div 100 /\ r < (35 * Unit) \div 10)

\* line 378: ranges[:10] followed by ranges[-10:]
front_cone(ranges) == SubSeq(ranges, 1, 10) \o SubSeq(ranges, Len(ranges) - 9, Len(ranges))

\* line 379
front_valid(ranges) == SelectSeq(front_cone(ranges), LAMBDA r : r > Unit \div 100)

LidarSteps == <<"array", "filter", "min", "cone", "mean">>

\* whether the step of lines 370-381 named `step` runs for these ranges
lidar_step_runs(ranges, step) ==
    CASE step = "array" -> TRUE
      [] step = "filter" -> TRUE
      [] step = "min" -> Len(valid_ranges(ranges)) > 0
      [] step = "cone" -> Len(ranges) > 20
      [] step = "mean" -> Len(ranges) > 20 /\ Len(front_valid(ranges)) > 0
      [] OTHER -> FALSE

\* position of a step in the try block, 0 for none of them
step_index(step) ==
    IF \E k \in 1..Len(LidarSteps) : LidarSteps[k] = step
    THEN CHOOSE k \in 1..Len(LidarSteps) : LidarSteps[k] = step
    ELSE 0

\* lines 367-383: scan_summary after the try block, when the step `fault`
\* raises ("none": no step raises). A step that raises leaves what the
\* earlier steps stored.
scan_summary(msg, fault) ==
    LET k == step_index(fault)
        raised == ~msg.none /\ k > 0 /\ lidar_step_runs(msg.ranges, fault)
        done(step) == ~msg.none /\ lidar_step_runs(msg.ranges, step)
                          /\ (raised => step_index(step) < k)
    IN  [min_dist |-> IF done("min") THEN SeqMin(valid_ranges(msg.ranges)) ELSE -Unit,
         front_dist |-> IF done("mean") THEN SeqMean(front_valid(msg.ranges)) ELSE -Unit,
         raised |-> raised]

\* lines 389-401: the report; int(pct_disp) raises ValueError on NaN
log_report(b) == IF b.pct_disp.nan THEN Raise ELSE Ok("logged")

\* lines 404-427; ratio, volt and wh are numbers here, line 391 having raised
\* otherwise
snapshot(ts, b, pose, motion, scan, compute_info) ==
    [ts |-> ts,
     type |-> "telemetry",
     battery |-> [percentage |-> Round(b.ratio.v, 4),
                  voltage |-> Round(b.volt, 2),
                  wh |-> Round(b.wh.v, 2)],
     pose |-> [x |-> Round(pose.x_pos, 3), y |-> Round(pose.y_pos, 3)],
     motion |-> [linear_velocity |-> Round(motion.linear_v, 3),
                 angular_velocity |-> Round(motion.angular_v, 3),
                 acceleration_x |-> Round(motion.accel_x, 3)],
     env |-> [obstacle_min |-> Round(scan.min_dist, 3),
              obstacle_front |-> Round(scan.front_dist, 3)],
     compute |-> compute_info]

(***************************************************************************)
(* The node: state after ExporterNode.__init__ (lines 289-294)              *)
(***************************************************************************)
NotCalled == [called |-> FALSE]

NodeInit ==
    /\ last_battery_msg = None
    /\ last_pose_msg = None
    /\ last_imu_msg = None
    /\ last_scan_msg = None
    /\ last_odom_msg = None
    /\ alive = TRUE
    /\ ticks = 0
    /\ attempts = 0
    /\ errors = 0
    /\ delivered = <<>>
    /\ last = [kind |-> "init"]

(***************************************************************************)
(* The host the node runs on, and the single failure a tick may meet        *)
(***************************************************************************)
Line_model == <<"m","o","d","e","l"," ","n","a","m","e","\t",":"," ","A","R","M","v","7">>
Line_hw == <<"H","a","r","d","w","a","r","e","\t",":"," ","B","C","M","2","8","3","5">>
Line_proc == <<"p","r","o","c","e","s","s","o","r","\t",":"," ","0">>
S_aarch64 == <<"a","a","r","c","h","6","4">>
Dev_sda1 == <<"/","d","e","v","/","s","d","a","1">>
Rot_sda == <<"/","s","y","s","/","b","l","o","c","k","/","s","d","a","/","q","u","e","u","e","/","r","o","t","a","t","i","o","n","a","l">>

\* a host on which every query answers and every sub-probe finds its device
TheHost ==
    [cpu_count |-> Ok(4),
     cpuinfo |-> File(<<Line_proc, Line_model, Line_hw>>),
     processor |-> S_aarch64,
     machine |-> Ok("aarch64"),
     cpu_freq |-> Ok([none |-> FALSE, current |-> 1500 * Unit]),
     cpu_percent |-> Ok(12345 * 100),
     virtual_memory |-> Ok([total |-> 8, available |-> 5, used |-> 3, percent |-> 375 * (Unit \div 10)]),
     disk_usage |-> Ok([total |-> 64, free |-> 48, used |-> 16, percent |-> 25 * Unit]),
     partitions |-> Ok(<<[device |-> Dev_sda1, mountpoint |-> S_root]>>),
     files |-> (Rot_sda :> File(<<"0","\n">>)),
     nvml |-> [available |-> TRUE,
               query |-> Ok([count |-> 1, name |-> "Orin", total |-> 8, used |-> 2, util |-> 40])],
     npu |-> [devfreq_dir |-> FALSE, dev_rknpu |-> FALSE,
              debug_load |-> Missing, devfreq_load |-> Missing,
              lsusb |-> <<Ok({"1a6e:089a"}), Ok({"1a6e:089a"})>>]]

\* queries of get_compute_info and of the functions it calls
ProbeFaults == {"cpu_count", "cpuinfo", "machine", "cpu_freq", "cpu_percent",
                "virtual_memory", "disk_usage", "disk_partitions", "nvml", "lsusb"}
\* steps of the lidar try block (lines 370-381)
LidarFaults == {"array", "filter", "min", "cone", "mean"}
\* the two calls of the publish try block (lines 431-435)
PublishFaults == {"json_dumps", "basic_publish"}
Faults == {"none"} \cup ProbeFaults \cup LidarFaults \cup PublishFaults

\* TheHost with the query `fault` raising during this tick
HostUnder(fault) ==
    CASE fault = "cpu_count" -> [TheHost EXCEPT !.cpu_count = Raise]
      [] fault = "cpuinfo" -> [TheHost EXCEPT !.cpuinfo = Unreadable]
      [] fault = "machine" -> [TheHost EXCEPT !.machine = Raise]
      [] fault = "cpu_freq" -> [TheHost EXCEPT !.cpu_freq = Raise]
      [] fault = "cpu_percent" -> [TheHost EXCEPT !.cpu_percent = Raise]
      [] fault = "virtual_memory" -> [TheHost EXCEPT !.virtual_memory = Raise]
      [] fault = "disk_usage" -> [TheHost EXCEPT !.disk_usage = Raise]
      [] fault = "disk_partitions" -> [TheHost EXCEPT !.partitions = Raise]
      [] fault = "nvml" -> [TheHost EXCEPT !.nvml.query = Raise]
      [] fault = "lsusb" -> [TheHost EXCEPT !.npu.lsusb = <<Raise, Raise>>]
      [] OTHER -> TheHost

\* what get_compute_info returns or raises in a tick that meets `fault`
\* (every tick probes the host afresh, line 386)
ComputeUnder == [fault \in Faults |-> get_compute_info(HostUnder(fault))]

(***************************************************************************)
(* Readings the transport delivers                                         *)
(***************************************************************************)
BatteryState(pct, volt) == [none |-> FALSE, percentage |-> pct, voltage |-> volt]
Pose(x, y) == [none |-> FALSE, x |-> x, y |-> y]
Imu(ax) == [none |-> FALSE, linear_acceleration_x |-> ax]
LaserScan(ranges) == [none |-> FALSE, ranges |-> ranges]
Odometry(vx, wz) == [none |-> FALSE, linear_x |-> vx, angular_z |-> wz]

\* percentages 0.73456, 73, 1.0, 150, -0.5 and NaN (sensor_msgs/BatteryState
\* reports an unmeasured percentage as NaN)
BatteryMsgs ==
    {BatteryState(F(73456), 1610000), BatteryState(F(73 * Unit), 1234400),
     BatteryState(F(Unit), 1610000), BatteryState(F(150 * Unit), 1610000),
     BatteryState(F(-50000), 1610000), BatteryState(NaN, 1610000)}

PoseMsgs == {Pose(123440, -56780), Pose(-200000, 0)}
ImuMsgs == {Imu(98070), Imu(-5000)}
OdomMsgs == {Odometry(22000, -150040)}

\* 25 ranges: the first ten a, the middle five b, the last ten c
Ranges25(a, b, c) == [i \in 1..25 |-> IF i <= 10 THEN a ELSE IF i <= 15 THEN b ELSE c]

ScanMsgs ==
    {LaserScan(<<>>),
     LaserScan(<<0, 2 * Unit, 50000, 4 * Unit>>),
     LaserScan(<<349996, 350000>>),
     LaserScan(<<1000, 1004, 0>>),
     LaserScan(<<0, 350000, 1000>>),
     LaserScan(Ranges25(2 * Unit, 0, 2 * Unit)),
     LaserScan(Ranges25(5 * Unit, Unit, 0))}

MaxTicks == 2   \* timer ticks in a run

(***************************************************************************)
(* Handlers                                                                *)
(***************************************************************************)
\* line 326
battery_callback(msg) ==
    /\ alive
    /\ last_battery_msg' = msg
    /\ last' = [kind |-> "callback", channel |-> "battery", msg |-> msg]
    /\ UNCHANGED <<last_pose_msg, last_imu_msg, last_scan_msg, last_odom_msg,
                   alive, ticks, attempts, errors, delivered, probe_vars>>

\* line 327
pose_callback(msg) ==
    /\ alive
    /\ last_pose_msg' = msg
    /\ last' = [kind |-> "callback", channel |-> "pose", msg |-> msg]
    /\ UNCHANGED <<last_battery_msg, last_imu_msg, last_scan_msg, last_odom_msg,
                   alive, ticks, attempts, errors, delivered, probe_vars>>

\* line 328
imu_callback(msg) ==
    /\ alive
    /\ last_imu_msg' = msg
    /\ last' = [kind |-> "callback", channel |-> "imu", msg |-> msg]
    /\ UNCHANGED <<last_battery_msg, last_pose_msg, last_scan_msg, last_odom_msg,
                   alive, ticks, attempts, errors, delivered, probe_vars>>

\* line 329
scan_callback(msg) ==
    /\ alive
    /\ last_scan_msg' = msg
    /\ last' = [kind |-> "callback", channel |-> "scan", msg |-> msg]
    /\ UNCHANGED <<last_battery_msg, last_pose_msg, last_imu_msg, last_odom_msg,
                   alive, ticks, attempts, errors, delivered, probe_vars>>

\* line 330
odom_callback(msg) ==
    /\ alive
    /\ last_odom_msg' = msg
    /\ last' = [kind |-> "callback", channel |-> "odom", msg |-> msg]
    /\ UNCHANGED <<last_battery_msg, last_pose_msg, last_imu_msg, last_scan_msg,
                   alive, ticks, attempts, errors, delivered, probe_vars>>

\* whether the query or step `fault` is executed by a tick in this state: a
\* lidar step runs only for a scan that reaches it, the publish try block only
\* when line 391 has not raised
fault_reached(fault) ==
    /\ fault \in LidarFaults =>
           ~last_scan_msg.none /\ lidar_step_runs(last_scan_msg.ranges, fault)
    /\ fault \in PublishFaults => ~log_report(battery_locals(last_battery_msg)).exc

\* lines 333-437, with `fault` the one query or step that raises in this tick.
\* An exception that leaves the callback leaves rclpy.spin (lines 443-451):
\* the node is destroyed and no handler runs again.
publish_telemetry_callback(fault) ==
    /\ alive
    /\ ticks < MaxTicks
    /\ fault_reached(fault)
    /\ ticks' = ticks + 1
    /\ LET b == battery_locals(last_battery_msg)
           pose == pose_locals(last_pose_msg)
           motion == motion_locals(last_odom_msg, last_imu_msg)
           scan == scan_summary(last_scan_msg, fault)
           compute_info == ComputeUnder[fault]
       IN  IF compute_info.exc \/ log_report(b).exc
           THEN /\ alive' = FALSE
                /\ last' = [kind |-> "tick", fault |-> fault, outcome |-> "raised",
                            lidar_exc |-> scan.raised]
                /\ UNCHANGED <<attempts, errors, delivered>>
           ELSE LET data == snapshot(ticks + 1, b, pose, motion, scan, compute_info.val)
                IN  /\ attempts' = attempts + 1
                    /\ IF fault \in PublishFaults
                       THEN /\ errors' = errors + 1
                            /\ delivered' = delivered
                            /\ last' = [kind |-> "tick", fault |-> fault,
                                        outcome |-> "publish_error",
                                        lidar_exc |-> scan.raised, data |-> data]
                       ELSE /\ errors' = errors
                            /\ delivered' = Append(delivered, data.ts)
                            /\ last' = [kind |-> "tick", fault |-> fault,
                                        outcome |-> "published",
                                        lidar_exc |-> scan.raised, data |-> data]
                    /\ alive' = alive
    /\ UNCHANGED <<cache, probe_vars>>

(***************************************************************************)
(* Probe functions called on their own, over bounded sets of host states    *)
(***************************************************************************)
MaxLines == 3   \* lines of /proc/cpuinfo
MaxParts == 2   \* entries of psutil.disk_partitions()

SeqsUpTo(S, n) == UNION {[1..k -> S] : k \in 0..n}

Line_model_nocolon == <<"m","o","d","e","l"," ","n","a","m","e">>
Line_MODEL == <<"M","o","d","e","l"," ","N","a","m","e",":"," ","C","o","r","t","e","x",":"," ","A","7","2">>

CpuLines == {Line_model, Line_hw, Line_proc, Line_model_nocolon, Line_MODEL}

CpuEnvs ==
    [cpuinfo : {Missing, Unreadable} \cup {File(t) : t \in SeqsUpTo(CpuLines, MaxLines)},
     processor : {<<>>, S_aarch64}]

Dev_mmc == <<"/","d","e","v","/","m","m","c","b","l","k","0","p","2">>
Dev_nvme == <<"/","d","e","v","/","n","v","m","e","0","n","1","p","2">>
Dev_sdb == <<"/","d","e","v","/","s","d","b">>
Dev_lvm == <<"/","d","e","v","/","m","a","p","p","e","r","/","n","v","m","e","-","m","m","c","b","l","k">>
Dev_sdnvme == <<"/","d","e","v","/","s","d","n","v","m","e","0">>
Dev_vda == <<"/","d","e","v","/","v","d","a","1">>
S_boot == <<"/","b","o","o","t">>
Rot_sdb == <<"/","s","y","s","/","b","l","o","c","k","/","s","d","b","/","q","u","e","u","e","/","r","o","t","a","t","i","o","n","a","l">>

Devices == {Dev_mmc, Dev_nvme, Dev_sda1, Dev_sdb, Dev_lvm, Dev_sdnvme, Dev_vda, <<>>}
Partitions == [device : Devices, mountpoint : {S_root, S_boot}]

\* contents of a rotational flag file
FlagFiles == {Unreadable, File(<<"1","\n">>), File(<<"0","\n">>), File(<<"1">>), File(<<>>)}

FsChoices ==
    {<<>>}
    \cup {Rot_sda :> f : f \in FlagFiles}
    \cup {Rot_sdb :> File(<<"1","\n">>)}
    \cup {(Rot_sda :> f) @@ (Rot_sdb :> File(<<"1","\n">>)) : f \in FlagFiles}

DiskEnvs ==
    [partitions : {Raise} \cup {Ok(ps) : ps \in SeqsUpTo(Partitions, MaxParts)},
     files : FsChoices]

Load_10pct == <<"1","0","%","\n">>
Load_7 == <<"7">>
Load_rk == <<"N","P","U"," ","l","o","a","d",":"," ","C","o","r","e","0",":"," ","1","0","%",",">>

LoadFiles == {Missing, Unreadable, File(Load_10pct), File(Load_7), File(Load_rk), File(<<>>)}

LsusbRuns ==
    {Raise} \cup {Ok(ids) : ids \in {{}, {"1d6b:0002"}, {"1a6e:089a"}, {"18d1:9302", "1d6b:0002"},
                                     {"03e7:2485"}, {"1a6e:089a", "03e7:2485"}}}

\* /sys/class/devfreq/fdab0000.npu/load can exist only inside /sys/class/devfreq
NpuEnvs ==
    {e \in [devfreq_dir : BOOLEAN, dev_rknpu : BOOLEAN,
            debug_load : LoadFiles, devfreq_load : LoadFiles,
            lsusb : LsusbRuns \X LsusbRuns] :
        e.devfreq_load.exists => e.devfreq_dir}

InitCpu == NodeInit /\ probe_env \in CpuEnvs /\ probe_ret = NotCalled
InitDisk == NodeInit /\ probe_env \in DiskEnvs /\ probe_ret = NotCalled
InitNpu == NodeInit /\ probe_env \in NpuEnvs /\ probe_ret = NotCalled

CallGetCpuModel ==
    /\ ~probe_ret.called
    /\ probe_ret' = [called |-> TRUE, ret |-> get_cpu_model(probe_env)]
    /\ UNCHANGED <<cache, node_vars, probe_env>>

CallGetDiskType ==
    /\ ~probe_ret.called
    /\ probe_ret' = [called |-> TRUE, ret |-> get_disk_type(probe_env)]
    /\ UNCHANGED <<cache, node_vars, probe_env>>

CallGetNpuInfo ==
    /\ ~probe_ret.called
    /\ probe_ret' = [called |-> TRUE, ret |-> Ok(get_npu_info(probe_env))]
    /\ UNCHANGED <<cache, node_vars, probe_env>>

SpecCpu == InitCpu /\ [][CallGetCpuModel]_vars
SpecDisk == InitDisk /\ [][CallGetDiskType]_vars
SpecNpu == InitNpu /\ [][CallGetNpuInfo]_vars

(***************************************************************************)
(* Properties of the probe functions                                       *)
(***************************************************************************)
DiskLabels == {"SD/eMMC", "NVMe SSD", "HDD", "SSD", "Unknown"}

\* the rotational flag file of a root device, by name
C5_FlagFile(dev, files) ==
    IF dev = Dev_sda1 /\ Rot_sda \in DOMAIN files THEN files[Rot_sda]
    ELSE IF dev = Dev_sdb /\ Rot_sdb \in DOMAIN files THEN files[Rot_sdb]
    ELSE Missing

\* the label the first-match-wins chain gives a root device
C5_ChainLabel(dev, files) ==
    LET flag == C5_FlagFile(dev, files)
    IN  CASE Contains(dev, S_mmcblk) -> "SD/eMMC"
          [] ~Contains(dev, S_mmcblk) /\ Contains(dev, S_nvme) -> "NVMe SSD"
          [] /\ ~Contains(dev, S_mmcblk) /\ ~Contains(dev, S_nvme)
             /\ StartsWith(dev, S_dev_sd) /\ flag.exists /\ flag.readable
             -> IF Strip(flag.text) = <<"1">> THEN "HDD" ELSE "SSD"
          [] OTHER -> "Unknown"

C5_RootIndexes(ps) == {i \in 1..Len(ps) : ps[i].mountpoint = S_root}

C5_Label(env) ==
    IF env.partitions.exc \/ C5_RootIndexes(env.partitions.val) = {} THEN "Unknown"
    ELSE LET ps == env.partitions.val
             first == CHOOSE i \in C5_RootIndexes(ps) : \A j \in C5_RootIndexes(ps) : i <= j
         IN  C5_ChainLabel(ps[first].device, env.files)

\* C5: get_disk_type never raises and returns the label of the first-match-wins
\* chain over the root-mount device: 'mmcblk' -> SD/eMMC, else 'nvme' -> NVMe SSD,
\* else '/dev/sd' prefix with an existing readable rotational flag -> HDD when the
\* flag reads 1 and SSD otherwise, and Unknown in every other case (no root
\* mount, no match, flag missing or unreadable, disk_partitions raising).
C5_DiskTypeChain ==
    probe_ret.called =>
        /\ ~probe_ret.ret.exc
        /\ probe_ret.ret.val \in DiskLabels
        /\ probe_ret.ret.val = C5_Label(probe_env)

\* a SATA root device whose flag file reads 1 was classified, behind a /boot
\* entry that carries the SD marker
C5_Witness ==
    /\ probe_ret.called
    /\ probe_env.partitions = Ok(<<[device |-> Dev_mmc, mountpoint |-> S_boot],
                                   [device |-> Dev_sda1, mountpoint |-> S_root]>>)
    /\ probe_env.files = (Rot_sda :> File(<<"1","\n">>))
    /\ probe_ret.ret = Ok("HDD")

C10_Matches(line, key) == Contains(Lower(line), key) /\ Contains(line, <<":">>)
C10_Value(line) == Strip(SplitField1(line, ":").val)
C10_FirstValue(lines, key) ==
    C10_Value(lines[CHOOSE i \in 1..Len(lines) :
                        /\ C10_Matches(lines[i], key)
                        /\ \A j \in 1..(i - 1) : ~C10_Matches(lines[j], key)])
\* every line that names a descriptor carries a value after a colon
C10_WellFormed(lines) ==
    \A i \in 1..Len(lines) :
        (Contains(Lower(lines[i]), S_model_name) \/ Contains(Lower(lines[i]), S_hardware))
            => Contains(lines[i], <<":">>)

\* C10: get_cpu_model never raises; it returns the value of the 'model name'
\* line whenever the file has one, wherever a 'hardware' line sits; the value
\* of the 'hardware' line only when there is no 'model name' line; and the
\* generic processor name (or Unknown when that is empty) only when there is
\* neither or the file cannot be read.
C10_OrderedFallback ==
    probe_ret.called =>
        /\ ~probe_ret.ret.exc
        /\ LET f == probe_env.cpuinfo
               generic == IF probe_env.processor = <<>> THEN S_Unknown ELSE probe_env.processor
           IN  IF ~(f.exists /\ f.readable) THEN probe_ret.ret.val = generic
               ELSE C10_WellFormed(f.text) =>
                    IF \E i \in 1..Len(f.text) : C10_Matches(f.text[i], S_model_name)
                    THEN probe_ret.ret.val = C10_FirstValue(f.text, S_model_name)
                    ELSE IF \E i \in 1..Len(f.text) : C10_Matches(f.text[i], S_hardware)
                    THEN probe_ret.ret.val = C10_FirstValue(f.text, S_hardware)
                    ELSE probe_ret.ret.val = generic

C2_KnownUsbIds == {"1a6e:089a", "18d1:9302", "03e7:2485"}

\* C2: whenever a Rockchip load file exists and lsusb lists a known Coral or
\* Movidius id, get_npu_info names the Rockchip NPU, whichever of
\* /sys/class/devfreq and /dev/rknpu exist and whatever the load file holds.
C2_RockchipPriority ==
    probe_ret.called =>
        ((/\ probe_env.debug_load.exists \/ probe_env.devfreq_load.exists
          /\ \A k \in 1..2 : /\ ~probe_env.lsusb[k].exc
                             /\ probe_env.lsusb[k].val \cap C2_KnownUsbIds # {})
         => probe_ret.ret.val.name = "Rockchip NPU")

(***************************************************************************)
(* The node as ROS 2 runs it: one handler at a time on one thread           *)
(***************************************************************************)
Init == NodeInit /\ probe_env = None /\ probe_ret = NotCalled

Next ==
    \/ \E msg \in BatteryMsgs : battery_callback(msg)
    \/ \E msg \in PoseMsgs : pose_callback(msg)
    \/ \E msg \in ImuMsgs : imu_callback(msg)
    \/ \E msg \in ScanMsgs : scan_callback(msg)
    \/ \E msg \in OdomMsgs : odom_callback(msg)
    \/ \E fault \in Faults : publish_telemetry_callback(fault)

Spec == Init /\ [][Next]_vars

(***************************************************************************)
(* Properties of the node                                                  *)
(***************************************************************************)
TickDone == last.kind = "tick"
SnapshotBuilt == last.kind = "tick" /\ last.outcome # "raised"

\* C1: for every battery reading held in the cache when a tick fires, the
\* ratio the tick computes lies in [0, 1], for all raw percentages.
C1_RatioInUnitInterval ==
    (TickDone /\ ~last_battery_msg.none) =>
        LET ratio == battery_locals(last_battery_msg).ratio
        IN  /\ ~ratio.nan /\ 0 <= ratio.v /\ ratio.v <= Unit
            /\ SnapshotBuilt =>
                   /\ 0 <= last.data.battery.percentage
                   /\ last.data.battery.percentage <= Unit

\* C1 (amended): for every battery reading whose raw percentage p satisfies
\* 0 <= p <= 100, the ratio is p when p <= 1.0 and p / 100 otherwise, it lies
\* in [0, 1], and the snapshot carries it rounded to 4 decimals.
C1_RatioInUnitIntervalUpTo100 ==
    (/\ TickDone /\ ~last_battery_msg.none
     /\ ~last_battery_msg.percentage.nan
     /\ 0 <= last_battery_msg.percentage.v
     /\ last_battery_msg.percentage.v <= 100 * Unit) =>
        LET p == last_battery_msg.percentage.v
            ratio == battery_locals(last_battery_msg).ratio
        IN  /\ ~ratio.nan
            /\ ratio.v = IF p <= Unit THEN p ELSE p \div 100
            /\ 0 <= ratio.v /\ ratio.v <= Unit
            /\ SnapshotBuilt =>
                   /\ last.data.battery.percentage = Round(ratio.v, 4)
                   /\ 0 <= last.data.battery.percentage
                   /\ last.data.battery.percentage <= Unit

\* a tick normalised the percentage 73 to the ratio 0.73
C1_Witness ==
    /\ SnapshotBuilt
    /\ ~last_battery_msg.none
    /\ last_battery_msg.percentage = F(73 * Unit)
    /\ last.data.battery.percentage = 73000

\* the blocks of the compute report that a failing query belongs to
C3_BlockOf(fault) ==
    CASE fault \in {"cpu_count", "cpuinfo", "machine", "cpu_freq", "cpu_percent"} -> "cpu"
      [] fault = "virtual_memory" -> "memory"
      [] fault \in {"disk_usage", "disk_partitions"} -> "disk"
      [] fault = "nvml" -> "gpu"
      [] fault = "lsusb" -> "npu"

\* C3: whichever single query of a sub-probe raises, get_compute_info returns
\* a complete compute block in which only that sub-probe's block differs from
\* the healthy one, and the tick builds and publishes its snapshot.
C3_ProbeFailureIsolated ==
    (TickDone /\ last.fault \in ProbeFaults) =>
        /\ last.outcome = "published"
        /\ \A block \in {"cpu", "memory", "disk", "gpu", "npu"} \ {C3_BlockOf(last.fault)} :
               last.data.compute[block] = ComputeUnder["none"].val[block]

\* C4: every tick in which no query, step or publish call fails produces one
\* snapshot and one publish attempt, whatever the five slots hold; with all
\* five absent the snapshot carries battery 0/0/0, pose 0/0, motion 0/0/0 and
\* distances -1/-1.
C4_OneSnapshotPerTick ==
    [][(ticks' = ticks + 1 /\ last'.fault = "none") =>
          /\ last'.outcome = "published"
          /\ attempts' = attempts + 1
          /\ Len(delivered') = Len(delivered) + 1
          /\ (\A k \in 1..5 : cache[k].none) =>
                 /\ last'.data.battery = [percentage |-> 0, voltage |-> 0, wh |-> 0]
                 /\ last'.data.pose = [x |-> 0, y |-> 0]
                 /\ last'.data.motion = [linear_velocity |-> 0, angular_velocity |-> 0,
                                         acceleration_x |-> 0]
                 /\ last'.data.env = [obstacle_min |-> -Unit, obstacle_front |-> -Unit]
      ]_vars

\* the ranges of a sequence that lie strictly inside the window (0.01, 3.5)
C6_InWindow(ranges) == {ranges[i] : i \in 1..Len(ranges)} \cap (1001..349999)
C6_Least(S) == CHOOSE m \in S : \A x \in S : m <= x

\* C6: for every range sequence in the scan slot whose summary completes, the
\* obstacle_min of the snapshot is -1.0 or strictly between 0.01 and 3.5; it
\* is -1.0 exactly when no range lies in the window and otherwise it is the
\* least range of the window.
C6_ObstacleMinInOpenWindow ==
    (SnapshotBuilt /\ ~last_scan_msg.none /\ ~last.lidar_exc) =>
        LET m == last.data.env.obstacle_min
            W == C6_InWindow(last_scan_msg.ranges)
        IN  /\ m = -Unit \/ (1000 < m /\ m < 350000)
            /\ m = -Unit <=> W = {}
            /\ W # {} => m = C6_Least(W)

\* C6 (amended): the obstacle_min of the snapshot is -1.0 or lies in the closed
\* interval [0.01, 3.5]; when the summary completes it is -1.0 exactly when no
\* range lies strictly inside (0.01, 3.5) and otherwise it is the least range
\* of the window rounded to 3 decimals.
C6_ObstacleMinRounded ==
    (SnapshotBuilt /\ ~last_scan_msg.none) =>
        LET m == last.data.env.obstacle_min
            W == C6_InWindow(last_scan_msg.ranges)
        IN  /\ m = -Unit \/ (1000 <= m /\ m <= 350000)
            /\ ~last.lidar_exc =>
                   /\ m = -Unit <=> W = {}
                   /\ W # {} => m = Round(C6_Least(W), 3)

\* the least range 3.49996 lies in the window and is published as 3.5
C6_Witness ==
    /\ SnapshotBuilt
    /\ last_scan_msg = LaserScan(<<349996, 350000>>)
    /\ ~last.lidar_exc
    /\ last.data.env.obstacle_min = 350000

\* C7: when json.dumps or basic_publish fails on a tick the error is logged,
\* the callback returns, the snapshot is not delivered, no slot changes, and
\* the broker only ever receives the snapshot of the tick that is running;
\* over any run the number of publish attempts equals the number of ticks.
C7_PublishFailureDropped ==
    [][(ticks' = ticks + 1) =>
          /\ attempts' = ticks'
          /\ cache' = cache
          /\ delivered' \in {delivered, Append(delivered, ticks')}
          /\ last'.fault \in PublishFaults =>
                 /\ errors' = errors + 1
                 /\ alive'
                 /\ delivered' = delivered
      ]_vars

\* C8: when a step of the lidar summary raises while a scan is present, both
\* obstacle_min and obstacle_front are -1.0 in that tick's snapshot.
C8_LidarFailureBothUnknown ==
    (SnapshotBuilt /\ last.lidar_exc) =>
        /\ last.data.env.obstacle_min = -Unit
        /\ last.data.env.obstacle_front = -Unit

C9_Slot(channel) ==
    CASE channel = "battery" -> 1 [] channel = "pose" -> 2 [] channel = "imu" -> 3
      [] channel = "scan" -> 4 [] channel = "odom" -> 5

C9_Ratio(p) == IF p <= Unit THEN p ELSE p \div 100

\* C9: a callback overwrites its own slot with the message delivered and
\* leaves the other four alone; a tick changes no slot; the snapshot a tick
\* builds takes battery from the battery slot, pose from the pose slot, the
\* velocities from the odom slot and acceleration_x from the imu slot, each
\* as the slot holds it at the tick (its latest message) or the default when
\* the slot is empty.
C9_LatestValuePerChannel ==
    [][/\ (last'.kind = "callback") =>
              /\ cache'[C9_Slot(last'.channel)] = last'.msg
              /\ \A k \in (1..5) \ {C9_Slot(last'.channel)} : cache'[k] = cache[k]
              /\ ticks' = ticks
       /\ (ticks' = ticks + 1) => cache' = cache /\ last'.kind = "tick"
       /\ (ticks' = ticks + 1 /\ last'.outcome # "raised") =>
              LET d == last'.data
              IN  /\ d.battery =
                         IF last_battery_msg.none
                         THEN [percentage |-> 0, voltage |-> 0, wh |-> 0]
                         ELSE [percentage |->
                                   Round(C9_Ratio(last_battery_msg.percentage.v), 4),
                               voltage |-> Round(last_battery_msg.voltage, 2),
                               wh |-> Round((C9_Ratio(last_battery_msg.percentage.v)
                                                * SpecWhCenti) \div 100, 2)]
                  /\ d.pose = IF last_pose_msg.none THEN [x |-> 0, y |-> 0]
                              ELSE [x |-> Round(last_pose_msg.x, 3),
                                    y |-> Round(last_pose_msg.y, 3)]
                  /\ d.motion.linear_velocity =
                         IF last_odom_msg.none THEN 0 ELSE Round(last_odom_msg.linear_x, 3)
                  /\ d.motion.angular_velocity =
                         IF last_odom_msg.none THEN 0 ELSE Round(last_odom_msg.angular_z, 3)
                  /\ d.motion.acceleration_x =
                         IF last_imu_msg.none THEN 0
                         ELSE Round(last_imu_msg.linear_acceleration_x, 3)
      ]_vars

\* the second tick of a run published what the five slots held at that tick
C9_Witness ==
    /\ SnapshotBuilt
    /\ delivered = <<1, 2>>
    /\ \A k \in 1..5 : ~cache[k].none
    /\ last_pose_msg = Pose(-200000, 0)
    /\ last.data.pose = [x |-> -200000, y |-> 0]
    /\ last.data.motion.acceleration_x = 98100
    /\ last.data.motion.linear_velocity = 22000

====
